---- MODULE Spec2Model ----
(***************************************************************************)
(* A model of whobpyt's reduced Wong-Wang forward model                    *)
(* (src/whobpyt/models/RWW/wong_wang.py): the RNNRWW constructor,          *)
(* setModelParameters and integration_forward.                             *)
(*                                                                         *)
(* Numbers.  The code computes in float32.  The model computes on a grid   *)
(* of 1/1000 (the integer 1500 is 1.5), with IEEE's three special values   *)
(* kept apart: NaN, +Inf and -Inf.  A finite result beyond MaxMag          *)
(* overflows to an infinity, as a float32 beyond 3.4e38 does.  exp, log,   *)
(* tanh and pow are computed by range reduction and a short series, to     *)
(* about three decimals.                                                   *)
(***************************************************************************)
EXTENDS Integers, Sequences, FiniteSets, TLC

\* ------------------------------------------------------------- numbers

One == 10 * 100
NaN == 0 - 2000000001
PosInf == 2000000002 + 0
NegInf == 0 - 2000000002
MaxMag == One * One

IsNaN(a) == a = NaN
IsInf(a) == a = PosInf \/ a = NegInf
IsFinite(a) == ~IsNaN(a) /\ ~IsInf(a)

Sign(a) == IF a = PosInf THEN 1 ELSE IF a = NegInf THEN 0 - 1
           ELSE IF a > 0 THEN 1 ELSE IF a < 0 THEN 0 - 1 ELSE 0

SignedInf(s) == IF s > 0 THEN PosInf ELSE NegInf

\* a finite exact result, rounded into the representable range
Fin(n) == IF n > MaxMag THEN PosInf ELSE IF n < 0 - MaxMag THEN NegInf ELSE n

Neg(a) == IF IsNaN(a) THEN NaN
          ELSE IF a = PosInf THEN NegInf
          ELSE IF a = NegInf THEN PosInf ELSE 0 - a

Add(a, b) == IF IsNaN(a) \/ IsNaN(b) THEN NaN
             ELSE IF IsInf(a) /\ IsInf(b) THEN (IF a = b THEN a ELSE NaN)
             ELSE IF IsInf(a) THEN a
             ELSE IF IsInf(b) THEN b
             ELSE Fin(a + b)

Sub(a, b) == Add(a, Neg(b))

\* floor(a * b / One) without leaving 32 bits; a, b finite within MaxMag
MulFin(a, b) == (a \div One) * b + ((a % One) * b) \div One

Mul(a, b) == IF IsNaN(a) \/ IsNaN(b) THEN NaN
             ELSE IF IsInf(a) \/ IsInf(b)
                  THEN (IF Sign(a) * Sign(b) = 0 THEN NaN ELSE SignedInf(Sign(a) * Sign(b)))
             ELSE Fin(MulFin(a, b))

\* torch.reciprocal: 1/0 is +Inf, 1/Inf is 0
Reciprocal(a) == IF IsNaN(a) THEN NaN
                 ELSE IF IsInf(a) THEN 0
                 ELSE IF a = 0 THEN PosInf
                 ELSE IF a > 0 THEN (One * One) \div a
                 ELSE 0 - ((One * One) \div (0 - a))

\* torch.divide
Divide(a, b) == IF IsNaN(a) \/ IsNaN(b) THEN NaN
                ELSE IF IsInf(a) /\ IsInf(b) THEN NaN
                ELSE IF IsInf(a) THEN (IF Sign(b) < 0 THEN Neg(a) ELSE a)
                ELSE IF IsInf(b) THEN 0
                ELSE IF b = 0 THEN (IF a = 0 THEN NaN ELSE SignedInf(Sign(a)))
                ELSE IF b > 0 THEN Fin((a * One) \div b)
                ELSE Fin(((0 - a) * One) \div (0 - b))

\* a < b as IEEE decides it: false when either side is NaN
Less(a, b) == IF IsNaN(a) \/ IsNaN(b) THEN FALSE
              ELSE IF a = b THEN FALSE
              ELSE IF a = NegInf \/ b = PosInf THEN TRUE
              ELSE IF a = PosInf \/ b = NegInf THEN FALSE
              ELSE a < b

\* t[t < floor] = floor: a masked assignment, which a NaN passes through
ClampBelow(a, floor) == IF Less(a, floor) THEN floor ELSE a

\* torch.nn.ReLU: NaN stays NaN
Relu(a) == IF IsNaN(a) THEN NaN ELSE IF Less(a, 0) THEN 0 ELSE a


\* e^k for k = 1 .. 6, on the grid
ExpOfInt == <<2718, 7389, 20086, 54598, 148413, 403429>>

\* e^r for 0 <= r < 1/2: 1 + r + r^2/2 + r^3/6 + r^4/24
ExpSeries(r) ==
    LET r2 == MulFin(r, r)
        r3 == MulFin(r2, r)
        r4 == MulFin(r3, r)
    IN One + r + r2 \div 2 + r3 \div 6 + r4 \div 24

\* e^x for a finite x >= 0: e^k * e^(1/2 or 0) * e^r
ExpPos(x) ==
    LET k == x \div One
        h == (x % One) \div 500
        r == x % 500
        ek == IF k = 0 THEN One ELSE ExpOfInt[k]
        eh == IF h = 1 THEN 1649 ELSE One
    IN IF k > 6 THEN PosInf ELSE Fin(MulFin(MulFin(ek, eh), ExpSeries(r)))

\* torch.exp
Exp(x) == IF IsNaN(x) THEN NaN
          ELSE IF x = PosInf THEN PosInf
          ELSE IF x = NegInf THEN 0
          ELSE IF x >= 0 THEN ExpPos(x)
          ELSE Reciprocal(ExpPos(0 - x))

\* ln m for One <= m < 2 One: 2 (z + z^3/3 + z^5/5), z = (m - 1)/(m + 1)
LnSeries(m) ==
    LET z == ((m - One) * One) \div (m + One)
        z2 == MulFin(z, z)
        z3 == MulFin(z2, z)
        z5 == MulFin(z3, z2)
    IN 2 * (z + z3 \div 3 + z5 \div 5)

RECURSIVE LnPos(_)
\* ln a for a finite a > 0: halve or double into [1, 2), ln 2 = 0.693
LnPos(a) == IF a >= 2 * One THEN 693 + LnPos(a \div 2)
            ELSE IF a < One THEN LnPos(2 * a) - 693
            ELSE LnSeries(a)

\* torch.log
Ln(a) == IF IsNaN(a) THEN NaN
         ELSE IF a = PosInf THEN PosInf
         ELSE IF a = NegInf THEN NaN
         ELSE IF a = 0 THEN NegInf
         ELSE IF a < 0 THEN NaN
         ELSE LnPos(a)

\* torch.pow(base, e) for a finite e: a negative base with a fractional
\* exponent is NaN, pow(0, e > 0) is 0, pow(x, 1) is x
Pow(base, e) ==
    IF IsNaN(base) \/ IsNaN(e) THEN NaN
    ELSE IF e = 0 THEN One
    ELSE IF e = One THEN base
    ELSE IF e = PosInf
         THEN (IF IsInf(base) THEN PosInf
               ELSE LET m == IF base < 0 THEN 0 - base ELSE base
                    IN IF m < One THEN 0 ELSE IF m = One THEN One ELSE PosInf)
    ELSE IF e = NegInf
         THEN (IF IsInf(base) THEN 0
               ELSE LET m == IF base < 0 THEN 0 - base ELSE base
                    IN IF m < One THEN PosInf ELSE IF m = One THEN One ELSE 0)
    ELSE IF base = PosInf THEN (IF e > 0 THEN PosInf ELSE 0)
    ELSE IF base = NegInf THEN (IF e % One # 0 THEN (IF e > 0 THEN PosInf ELSE 0)
                                ELSE IF e < 0 THEN 0
                                ELSE IF (e \div One) % 2 = 1 THEN NegInf ELSE PosInf)
    ELSE IF base = 0 THEN (IF e > 0 THEN 0 ELSE PosInf)
    ELSE IF base < 0
         THEN (IF e % One # 0 THEN NaN
               ELSE LET p == Exp(Mul(e, Ln(0 - base)))
                    IN IF (e \div One) % 2 = 1 THEN Neg(p) ELSE p)
    ELSE Exp(Mul(e, Ln(base)))

\* torch.tanh: (1 - e^(-2|x|)) / (1 + e^(-2|x|)), odd; on the grid it is
\* exactly 1 from about 3.8 on (in float32 from about 9.01 on)
Tanh(x) ==
    IF IsNaN(x) THEN NaN
    ELSE IF x = PosInf THEN One
    ELSE IF x = NegInf THEN 0 - One
    ELSE LET m == IF x < 0 THEN 0 - x ELSE x
             t == Exp(Neg(Add(m, m)))
             y == ((One - t) * One) \div (One + t)
         IN IF x < 0 THEN 0 - y ELSE y

RECURSIVE SqrtIter(_, _)
\* Newton's iteration for the integer square root of n, from above
SqrtIter(n, r) == LET r1 == (r + n \div r) \div 2
                  IN IF r1 >= r THEN r ELSE SqrtIter(n, r1)

\* torch.sqrt
Sqrt(a) == IF IsNaN(a) THEN NaN
           ELSE IF a = PosInf THEN PosInf
           ELSE IF a < 0 THEN NaN
           ELSE IF a = 0 THEN 0
           ELSE SqrtIter(a * One, a * One)


\* ------------------------------------------------------------- tensors

\* a 2-d tensor is a sequence of rows; an empty one has no rows
Rows(A) == Len(A)
Cols(A) == IF Len(A) = 0 THEN 0 ELSE Len(A[1])

\* np.zeros((r, c)) + fill
Full(r, c, fill) == [i \in 1 .. r |-> [j \in 1 .. c |-> fill]]

\* torch.transpose(A, 0, 1)
Transpose(A) == [j \in 1 .. Cols(A) |-> [i \in 1 .. Rows(A) |-> A[i][j]]]

RECURSIVE SumSeq(_)
\* the sum of a sequence of numbers, left to right
SumSeq(s) == IF Len(s) = 0 THEN 0 ELSE Add(SumSeq(SubSeq(s, 1, Len(s) - 1)), s[Len(s)])

\* two dimensions broadcast when they are equal or one of them is 1
DimsBroadcast(a, b) == a = b \/ a = 1 \/ b = 1

\* whether torch broadcasts the shapes of A and B
Broadcastable(A, B) == DimsBroadcast(Rows(A), Rows(B)) /\ DimsBroadcast(Cols(A), Cols(B))

Max2(a, b) == IF a >= b THEN a ELSE b

\* entry (i, j) of A stretched to a broadcast shape
At(A, i, j) == A[IF Rows(A) = 1 THEN 1 ELSE i][IF Cols(A) = 1 THEN 1 ELSE j]

\* A * B, elementwise with broadcasting
MulMat(A, B) ==
    [i \in 1 .. Max2(Rows(A), Rows(B)) |->
        [j \in 1 .. Max2(Cols(A), Cols(B)) |-> Mul(At(A, i, j), At(B, i, j))]]

\* A + B, elementwise with broadcasting
AddMat(A, B) ==
    [i \in 1 .. Max2(Rows(A), Rows(B)) |->
        [j \in 1 .. Max2(Cols(A), Cols(B)) |-> Add(At(A, i, j), At(B, i, j))]]

\* torch.exp(A)
ExpMat(A) == [i \in 1 .. Rows(A) |-> [j \in 1 .. Cols(A) |-> Exp(A[i][j])]]

\* c * A for a scalar c
ScaleMat(c, A) == [i \in 1 .. Rows(A) |-> [j \in 1 .. Cols(A) |-> Mul(c, A[i][j])]]

\* A / n for a scalar n
DivMat(A, n) == [i \in 1 .. Rows(A) |-> [j \in 1 .. Cols(A) |-> Divide(A[i][j], n)]]

\* A.sum(1): the sum of each row
RowSums(A) == [i \in 1 .. Rows(A) |-> SumSeq(A[i])]

\* torch.diag(v) of a 1-d tensor
Diag(v) == [i \in 1 .. Len(v) |-> [j \in 1 .. Len(v) |-> IF i = j THEN v[i] ELSE 0]]

\* torch.matmul(A, B) of 2-d tensors whose inner dimensions agree
MatMul(A, B) ==
    [i \in 1 .. Rows(A) |->
        [j \in 1 .. Cols(B) |-> SumSeq([k \in 1 .. Cols(A) |-> Mul(A[i][k], B[k][j])])]]

\* torch.linalg.norm(A): the Frobenius norm
FrobeniusNorm(A) ==
    Sqrt(SumSeq([i \in 1 .. Rows(A) |-> SumSeq([j \in 1 .. Cols(A) |-> Mul(A[i][j], A[i][j])])]))


\* ------------------------------------------------- the random generator

\* torch's generator: every draw advances its state.  The stream is a
\* small congruential one; the seeds of Init choose among its phases.
RngStep(s) == (5 * s + 3) % 16

\* the standard-normal draw the generator yields in state s: -2 .. 2
RandnOf(s) == ((s % 5) - 2) * One

RECURSIVE RngAfter(_, _)
\* the generator's state after k draws
RngAfter(s, k) == IF k = 0 THEN s ELSE RngAfter(RngStep(s), k - 1)

\* torch.randn(n): n draws, in order
Randn(s, n) == [k \in 1 .. n |-> RandnOf(RngAfter(s, k - 1))]

\* ---------------------------------------------------- the ParameterSet

\* a whobpyt.datatypes.parameter.par
Par(v, pm, pv) ==
    [is_par |-> TRUE, val |-> v, fit_par |-> FALSE, fit_hyper |-> FALSE,
     has_prior |-> pv # 0, prior_mean |-> pm, prior_var |-> pv]

\* an attribute of the parameter object that is no par (a method)
NotAPar ==
    [is_par |-> FALSE, val |-> 0, fit_par |-> FALSE, fit_hyper |-> FALSE,
     has_prior |-> FALSE, prior_mean |-> 0, prior_var |-> 0]

\* dir(model.param) without the dunder names: sorted, as dir() returns it
VarNames ==
    << "E0", "I_0", "V", "W_E", "W_I", "aE", "aI", "alpha", "bE", "bI", "dE", "dI",
       "g", "g_EE", "g_EI", "g_IE", "gamma_E", "gamma_I", "k1", "k2", "k3", "rho",
       "std_in", "std_out", "tau_0", "tau_E", "tau_I", "tau_f", "tau_s", "to" >>

\* ParamsRWW's entries, with values of the grid next to its defaults
DefaultParams ==
    [name \in {VarNames[i] : i \in 1 .. Len(VarNames)} |->
        CASE name = "E0" -> Par(340, 0, 0)
          [] name = "I_0" -> Par(320, 0, 0)
          [] name = "V" -> Par(20, 0, 0)
          [] name = "W_E" -> Par(One, 0, 0)
          [] name = "W_I" -> Par(700, 0, 0)
          [] name = "aE" -> Par(310 * One, 0, 0)
          [] name = "aI" -> Par(615 * One, 0, 0)
          [] name = "alpha" -> Par(320, 0, 0)
          [] name = "bE" -> Par(125 * One, 0, 0)
          [] name = "bI" -> Par(177 * One, 0, 0)
          [] name = "dE" -> Par(160, 0, 0)
          [] name = "dI" -> Par(87, 0, 0)
          [] name = "g" -> Par(20 * One, 20 * One, 100)
          [] name = "g_EE" -> Par(100, 100, 50)
          [] name = "g_EI" -> Par(100, 0, 0)
          [] name = "g_IE" -> Par(100, 0, 0)
          [] name = "gamma_E" -> Par(1, 0, 0)
          [] name = "gamma_I" -> Par(1, 0, 0)
          [] name = "k1" -> Par(2380, 0, 0)
          [] name = "k2" -> Par(2 * One, 0, 0)
          [] name = "k3" -> Par(480, 0, 0)
          [] name = "rho" -> Par(340, 0, 0)
          [] name = "std_in" -> Par(20, 20, 10)
          [] name = "std_out" -> Par(20, 0, 0)
          [] name = "tau_0" -> Par(980, 0, 0)
          [] name = "tau_E" -> Par(100 * One, 0, 0)
          [] name = "tau_I" -> Par(10 * One, 0, 0)
          [] name = "tau_f" -> Par(410, 0, 0)
          [] name = "tau_s" -> Par(650, 0, 0)
          [] OTHER -> NotAPar]

\* the entries whose fit flags the caller may set
FitNames == {"g", "g_EE", "std_in"}

\* par.randSet(): the value redrawn from the prior, with one draw
RandSet(entry, s) ==
    IF entry.has_prior
    THEN [entry EXCEPT !.val = Add(entry.prior_mean, Mul(entry.prior_var, RandnOf(s)))]
    ELSE entry

\* the generator after par.randSet()
RandSetRng(entry, s) == IF entry.has_prior THEN RngStep(s) ELSE s

\* the members of a list
SeqSet(s) == {s[i] : i \in DOMAIN s}

\* a tensor is named by the object holding it and the attribute it is held in
ModelTensor(attr) == <<"model", attr>>
ParTensor(name, field) == <<name, field>>


\* ----------------------------------------------------------- the state

VARIABLES
    pc,       \* where the program is: "new", "init_error", "idle", or in a forward call
    args,     \* the arguments the constructor is called with
    param,    \* the ParameterSet object, shared between the caller and the model
    model,    \* the attributes of the RNNRWW instance
    rng,      \* the state of torch's random generator
    calls,    \* how many times setModelParameters has run
    mat1,     \* the model's attributes as the first setModelParameters left them
    hx,       \* the State the caller holds
    hE,       \* the auxiliary history the caller holds
    fwd,      \* the locals of the forward call in progress
    ret,      \* what the last forward call returned
    windows   \* how many forward calls have returned

vars == <<pc, args, param, model, rng, calls, mat1, hx, hE, fwd, ret, windows>>

\* the bounds of the model
MaxNodes == 2
MaxTRs == 2
MaxSteps == 2
MaxSampling == 2
MaxSeed == 1
MaxCalls == 2
MaxWindows == 2

None == [none |-> TRUE]

\* int(x) of a float: truncation towards zero
IntOf(x) == IF x >= 0 THEN x \div One ELSE 0 - ((0 - x) \div One)

\* RNNRWW.__init__: the attributes it sets
InitAttrs(a) ==
    [model_name |-> "RWW",
     state_size |-> 6,
     tr |-> a.tr,
     step_size |-> a.step_size,
     steps_per_TR |-> IntOf(Divide(a.tr, a.step_size)),
     TRs_per_window |-> a.TRs_per_window,
     node_size |-> a.node_size,
     sampling_size |-> a.sampling_size,
     sc |-> a.sc,
     sc_fitted |-> a.sc,
     use_fit_gains |-> a.use_fit_gains,
     use_Laplacian |-> a.use_Laplacian,
     use_Bifurcation |-> a.use_Bifurcation,
     use_Gaussian_EI |-> a.use_Gaussian_EI,
     use_dynamic_boundary |-> a.use_dynamic_boundary,
     output_size |-> a.node_size]

\* RNNRWW(...): tr / step_size raises ZeroDivisionError for a zero step
Construct ==
    /\ pc = "new"
    /\ IF args.step_size = 0
       THEN pc' = "init_error" /\ model' = model
       ELSE pc' = "idle" /\ model' = InitAttrs(args)
    /\ UNCHANGED <<args, param, rng, calls, mat1, hx, hE, fwd, ret, windows>>

\* ------------------------------------------------- setModelParameters

\* a materializer that kept appending to the lists of the call before
AccumulatedList(m, key) ==
    IF "params_fitted" \in DOMAIN m THEN m.params_fitted[key] ELSE << >>

\* param_reg = [] and param_hyper = []: the lists start empty at each call
NewList(m, key) == << >>

\* the scalars the hyperprior-on-states mode creates
GaussianEIAttrs ==
    [E_m |-> 160, I_m |-> 100, v_m |-> One, q_m |-> One,
     E_v_inv |-> 2500 * One, I_v_inv |-> 2500 * One,
     v_v_inv |-> 100 * One, q_v_inv |-> 100 * One]

\* what that mode appends to param_hyper, in order
GaussianEIRegistered ==
    << ModelTensor("E_m"), ModelTensor("I_m"), ModelTensor("v_m"), ModelTensor("q_m"),
       ModelTensor("E_v_inv"), ModelTensor("I_v_inv"), ModelTensor("v_v_inv"),
       ModelTensor("v_v_inv") >>

\* the scalars the bifurcation mode creates
BifurcationAttrs == [sup_ca |-> 500, sup_cb |-> 20 * One, sup_cc |-> 10 * One]

\* what that mode appends to param_hyper, in order
BifurcationRegistered ==
    << ModelTensor("sup_ca"), ModelTensor("sup_cb"), ModelTensor("sup_cc") >>

\* a materializer that left the fitted gains at zero
GainsZeroInitial(n, fit) == Full(n, n, 0)

\* gains_con: np.zeros((n, n)) + 0.05 when the gains are fit, np.zeros((n, n)) otherwise
GainsInitial(n, fit) == IF fit THEN Full(n, n, 50) ELSE Full(n, n, 0)

\* what creating gains_con appends to param_reg
GainsRegistered(fit) == IF fit THEN << ModelTensor("gains_con") >> ELSE << >>

\* a loop that also put the value of a hyperprior-fitted par among the hyperparameters
ParHyperWithValue(name, var) ==
    IF var.fit_hyper
    THEN << ParTensor(name, "prior_mean"), ParTensor(name, "prior_var"),
            ParTensor(name, "val") >>
    ELSE << >>

\* what one par of the loop appends to param_hyper
ParHyperRegistered(name, var) ==
    IF var.fit_hyper
    THEN << ParTensor(name, "prior_mean"), ParTensor(name, "prior_var") >>
    ELSE << >>

\* what one par of the loop appends to param_reg
ParRegRegistered(name, var) ==
    IF var.fit_par THEN << ParTensor(name, "val") >> ELSE << >>

RECURSIVE ParLoop(_, _)
\* for var_name in var_names, from the i-th name on; st holds the model's
\* attributes, the parameter object, the two lists and the generator
ParLoop(st, i) ==
    IF i > Len(VarNames) THEN st
    ELSE LET name == VarNames[i]
             var == st.param[name]
         IN IF ~var.is_par THEN ParLoop(st, i + 1)
            ELSE LET drawn == IF var.fit_hyper THEN RandSet(var, st.rng) ELSE var
                     next == [model |-> (name :> drawn.val) @@ st.model,
                              param |-> [st.param EXCEPT ![name] = drawn],
                              reg |-> st.reg \o ParRegRegistered(name, drawn),
                              hyp |-> st.hyp \o ParHyperRegistered(name, drawn),
                              rng |-> IF var.fit_hyper THEN RandSetRng(var, st.rng) ELSE st.rng]
                 IN ParLoop(next, i + 1)

\* the whole of setModelParameters(model)
Materialize(m, p, s) ==
    LET hyp1 == NewList(m, "hyperparameter")
                \o (IF m.use_Gaussian_EI THEN GaussianEIRegistered ELSE << >>)
                \o (IF m.use_Bifurcation THEN BifurcationRegistered ELSE << >>)
        reg1 == NewList(m, "modelparameter") \o GainsRegistered(m.use_fit_gains)
        m1 == IF m.use_Gaussian_EI THEN GaussianEIAttrs @@ m ELSE m
        m2 == IF m.use_Bifurcation THEN BifurcationAttrs @@ m1 ELSE m1
        m3 == ("gains_con" :> GainsInitial(m.node_size, m.use_fit_gains)) @@ m2
        st == ParLoop([model |-> m3, param |-> p, reg |-> reg1, hyp |-> hyp1, rng |-> s], 1)
    IN [st EXCEPT !.model =
            ("params_fitted" :> [modelparameter |-> st.reg, hyperparameter |-> st.hyp])
            @@ st.model]

\* model.setModelParameters()
SetModelParameters ==
    /\ pc = "idle"
    /\ calls < MaxCalls
    /\ LET st == Materialize(model, param, rng)
       IN /\ model' = st.model
          /\ param' = st.param
          /\ rng' = st.rng
          /\ mat1' = IF calls = 0 THEN st.model ELSE mat1
    /\ calls' = calls + 1
    /\ UNCHANGED <<pc, args, hx, hE, fwd, ret, windows>>


\* ------------------------------------------------- integration_forward

\* torch.abs
Abs(a) == IF IsNaN(a) THEN NaN ELSE IF IsInf(a) THEN PosInf ELSE IF a < 0 THEN 0 - a ELSE a

\* 0.00001, which the grid rounds up to its smallest positive value
Eps5 == 1

\* 0.001, the floor of f, v and q under the hard clamp
HemoFloor == 1

\* h_tf(a, b, d, z): (eps + |a z - b|) / (eps d + |1 - exp(-d (a z - b))|)
h_tf(a, b, d, z) ==
    LET lin == Sub(Mul(a, z), b)
        num == Add(Eps5, Abs(lin))
        den == Add(Mul(Eps5, d), Abs(Sub(One, Exp(Mul(Neg(d), lin)))))
    IN Divide(num, den)

\* sc_mod = exp(gains_con) * sc
ScMod(m) == MulMat(ExpMat(m.gains_con), m.sc)

\* 0.5 * (sc_mod + sc_mod^T) / norm(0.5 * (sc_mod + sc_mod^T))
ScModNormalized(m) ==
    LET sym == ScaleMat(500, AddMat(ScMod(m), Transpose(ScMod(m))))
    IN DivMat(sym, FrobeniusNorm(sym))

\* -A, entry by entry
NegMat(A) == [i \in 1 .. Rows(A) |-> [j \in 1 .. Cols(A) |-> Neg(A[i][j])]]

\* lap_adj: the coupling operator of the call
LapAdj(m) ==
    IF Rows(m.sc) > 1
    THEN IF m.use_Laplacian
         THEN AddMat(NegMat(Diag(RowSums(ScModNormalized(m)))), ScModNormalized(m))
         ELSE ScModNormalized(m)
    ELSE Full(1, 1, 0)

\* the shapes of gains_con and sc do not broadcast, or sc_mod and its transpose do not
CouplingShapeError(m) ==
    /\ Rows(m.sc) > 1
    /\ \/ ~Broadcastable(m.gains_con, m.sc)
       \/ ~Broadcastable(ScMod(m), Transpose(ScMod(m)))

\* torch.zeros with a negative dimension raises
AllocError(m) == m.node_size < 0 \/ m.TRs_per_window < 0 \/ m.steps_per_TR < 0

\* a forward call that also kept the normalized matrix in place of sc
ForwardAttrsOverwritingSc(m) ==
    IF Rows(m.sc) > 1
    THEN [m EXCEPT !.sc_fitted = ScModNormalized(m), !.sc = ScModNormalized(m)]
    ELSE m

\* the attributes of the model after the coupling is built: sc_fitted is assigned
ForwardAttrs(m) ==
    IF Rows(m.sc) > 1 THEN [m EXCEPT !.sc_fitted = ScModNormalized(m)] ELSE m

\* column c of the State, one value per region
Column(h, c) == [r \in 1 .. Len(h) |-> h[r][c]]

\* the locals of integration_forward before its loops, with the history
\* the claims are stated on: the attributes, State and auxiliary history the
\* call was entered with, the hemodynamic state after every fine step, and
\* the draws of observation noise
ForwardLocals(m, h, aux) ==
    [lap_adj |-> LapAdj(m),
     x |-> Column(h, 3), f |-> Column(h, 4), v |-> Column(h, 5), q |-> Column(h, 6),
     E_mean |-> Column(h, 1), I_mean |-> Column(h, 2),
     E_hist |-> [r \in 1 .. m.node_size |->
                    [t \in 1 .. m.TRs_per_window |-> [k \in 1 .. m.steps_per_TR |-> 0]]],
     I_hist |-> [r \in 1 .. m.node_size |->
                    [t \in 1 .. m.TRs_per_window |-> [k \in 1 .. m.steps_per_TR |-> 0]]],
     bold_window |-> Full(m.node_size, m.TRs_per_window, 0),
     x_window |-> Full(m.node_size, m.TRs_per_window, 0),
     f_window |-> Full(m.node_size, m.TRs_per_window, 0),
     v_window |-> Full(m.node_size, m.TRs_per_window, 0),
     q_window |-> Full(m.node_size, m.TRs_per_window, 0),
     TR_i |-> 0, step_i |-> 0,
     model_before |-> m, hx_before |-> h, hE_before |-> aux,
     traj |-> << >>, bold_noise |-> << >>, neural_steps |-> 0, ntraj |-> << >>]

\* where the loops start: the neural loop when it has an iteration, the
\* period's end when a period has no step, the return when there is no period
LoopEntry(m) ==
    IF m.TRs_per_window > 0 /\ m.steps_per_TR > 0 THEN "neural"
    ELSE IF m.TRs_per_window > 0 THEN "emit"
    ELSE "return"

\* integration_forward up to its first loop (lines 205 - 253)
ForwardBegin ==
    /\ pc = "idle"
    /\ calls > 0
    /\ windows < MaxWindows
    /\ IF CouplingShapeError(model)
       THEN /\ pc' = "failed"
            /\ ret' = [status |-> "error", at |-> "coupling"]
            /\ UNCHANGED <<model, fwd>>
       ELSE IF AllocError(model)
       THEN /\ pc' = "failed"
            /\ ret' = [status |-> "error", at |-> "zeros"]
            /\ model' = ForwardAttrs(model)
            /\ UNCHANGED fwd
       ELSE /\ pc' = LoopEntry(model)
            /\ model' = ForwardAttrs(model)
            /\ fwd' = ForwardLocals(model, hx, hE)
            /\ ret' = ret
    /\ UNCHANGED <<args, param, rng, calls, mat1, hx, hE, windows>>

\* the standard deviation of the perturbation of the E samples: 0.02 under
\* the smooth policy, 0.001 under the hard clamp
EPerturbation(m) == IF m.use_dynamic_boundary THEN 20 ELSE 1

\* E[:, sample_i] = E_mean[:, 0] + sd * randn(node_size), sample by sample;
\* each sample draws node_size numbers for E and then node_size for I
ESamples(m, E_mean, s) ==
    [r \in 1 .. m.node_size |->
        [k \in 1 .. m.sampling_size |->
            Add(E_mean[r],
                Mul(EPerturbation(m), RandnOf(RngAfter(s, (k - 1) * 2 * m.node_size + r - 1))))]]

\* I[:, sample_i] = I_mean[:, 0] + 0.001 * randn(node_size)
ISamples(m, I_mean, s) ==
    [r \in 1 .. m.node_size |->
        [k \in 1 .. m.sampling_size |->
            Add(I_mean[r],
                Mul(1, RandnOf(RngAfter(s, (k - 1) * 2 * m.node_size + m.node_size + r - 1))))]]

\* IE: the input current of the excitatory pool
InputE(m, lap, E, I) ==
    LET LE == MatMul(lap, E)
    IN [r \in 1 .. m.node_size |->
           [k \in 1 .. m.sampling_size |->
               Tanh(Relu(Sub(Add(Add(Mul(m.W_E, m.I_0),
                                     Mul(Add(1, Relu(m.g_EE)), E[r][k])),
                                 Mul(m.g, LE[r][k])),
                             Mul(Add(1, Relu(m.g_IE)), I[r][k]))))]]

\* II: the input current of the inhibitory pool
InputI(m, E, I) ==
    [r \in 1 .. m.node_size |->
        [k \in 1 .. m.sampling_size |->
            Tanh(Relu(Sub(Add(Mul(m.W_I, m.I_0), Mul(Add(1, Relu(m.g_EI)), E[r][k])),
                          I[r][k])))]]

\* sqrt(dt) * randn(node_size, sampling_size)[r][k] * (0.02 + relu(std_in)),
\* the draw taken at offset `base` of the step's draws
StateNoise(m, s, base, r, k) ==
    Mul(Mul(Sqrt(m.step_size), RandnOf(RngAfter(s, base + (r - 1) * m.sampling_size + k - 1))),
        Add(20, Relu(m.std_in)))

\* E_next
ENext(m, lap, E, I, s) ==
    LET IE == InputE(m, lap, E, I)
        base == 2 * m.node_size * m.sampling_size
    IN [r \in 1 .. m.node_size |->
           [k \in 1 .. m.sampling_size |->
               Add(Add(E[r][k],
                       Mul(m.step_size,
                           Add(Mul(Neg(E[r][k]), Reciprocal(m.tau_E)),
                               Mul(Mul(m.gamma_E, Sub(One, E[r][k])),
                                   h_tf(m.aE, m.bE, m.dE, IE[r][k]))))),
                   StateNoise(m, s, base, r, k))]]

\* I_next
INext(m, E, I, s) ==
    LET II == InputI(m, E, I)
        base == 3 * m.node_size * m.sampling_size
    IN [r \in 1 .. m.node_size |->
           [k \in 1 .. m.sampling_size |->
               Add(Add(I[r][k],
                       Mul(m.step_size,
                           Add(Mul(Neg(I[r][k]), Reciprocal(m.tau_I)),
                               Mul(m.gamma_I, h_tf(m.aI, m.bI, m.dI, II[r][k]))))),
                   StateNoise(m, s, base, r, k))]]

\* t.mean(1): the mean across the samples of a region
MeanOf(row) == Divide(SumSeq(row), Len(row) * One)

\* the samples after the step: tanh(relu(.)) under the smooth policy, the
\* floor of 0.00001 under the hard clamp
Saturated(m, next) ==
    [r \in 1 .. m.node_size |->
        [k \in 1 .. m.sampling_size |->
            IF m.use_dynamic_boundary
            THEN Tanh(Add(0, Relu(Mul(One, next[r][k]))))
            ELSE ClampBelow(next[r][k], Eps5)]]

\* the mean the step leaves: floored at 0.00001 under the smooth policy
StepMean(m, samples) ==
    [r \in 1 .. m.node_size |->
        IF m.use_dynamic_boundary
        THEN ClampBelow(MeanOf(samples[r]), Eps5)
        ELSE MeanOf(samples[r])]

\* what the step records in E_hist / I_hist: the mean, through tanh under the hard clamp
Recorded(m, mean) ==
    [r \in 1 .. m.node_size |-> IF m.use_dynamic_boundary THEN mean[r] ELSE Tanh(mean[r])]

\* the draws one neural step takes
NeuralDraws(m) == 4 * m.node_size * m.sampling_size

\* hist[:, TR_i, step_i] = rec
SetHist(hist, t, k, rec) ==
    [r \in DOMAIN hist |-> [hist[r] EXCEPT ![t] = [hist[r][t] EXCEPT ![k] = rec[r]]]]

\* a neural loop nested the other way round: periods inside steps
NextPositionPeriodFirst(m, l) ==
    IF l.TR_i + 1 < m.TRs_per_window THEN [TR_i |-> l.TR_i + 1, step_i |-> l.step_i]
    ELSE IF l.step_i + 1 < m.steps_per_TR THEN [TR_i |-> 0, step_i |-> l.step_i + 1]
    ELSE [TR_i |-> m.TRs_per_window, step_i |-> 0]

\* the loop position after the body of the inner loop at (TR_i, step_i)
NextPosition(m, l) ==
    IF l.step_i + 1 < m.steps_per_TR THEN [TR_i |-> l.TR_i, step_i |-> l.step_i + 1]
    ELSE [TR_i |-> l.TR_i + 1, step_i |-> 0]

\* one iteration of the neural loop (lines 262 - 298, 336 - 371)
NeuralStep ==
    /\ pc = "neural"
    /\ IF Cols(fwd.lap_adj) # model.node_size
       THEN /\ pc' = "failed"
            /\ ret' = [status |-> "error", at |-> "matmul"]
            /\ UNCHANGED <<fwd, rng>>
       ELSE LET E == ESamples(model, fwd.E_mean, rng)
                I == ISamples(model, fwd.I_mean, rng)
                Es == Saturated(model, ENext(model, fwd.lap_adj, E, I, rng))
                Is == Saturated(model, INext(model, E, I, rng))
                Em == StepMean(model, Es)
                Im == StepMean(model, Is)
                pos == NextPosition(model, fwd)
            IN /\ fwd' = [fwd EXCEPT
                            !.E_mean = Em, !.I_mean = Im,
                            !.E_hist = SetHist(@, fwd.TR_i + 1, fwd.step_i + 1, Recorded(model, Em)),
                            !.I_hist = SetHist(@, fwd.TR_i + 1, fwd.step_i + 1, Recorded(model, Im)),
                            !.neural_steps = @ + 1,
                            !.ntraj = Append(@, [TR_i |-> fwd.TR_i, step_i |-> fwd.step_i,
                                                 rng |-> rng, E |-> E, I |-> I,
                                                 E_mean |-> Em, I_mean |-> Im]),
                            !.TR_i = IF pos.TR_i < model.TRs_per_window THEN pos.TR_i ELSE 0,
                            !.step_i = pos.step_i]
               /\ rng' = RngAfter(rng, NeuralDraws(model))
               /\ pc' = IF pos.TR_i < model.TRs_per_window THEN "neural" ELSE "hemo"
               /\ ret' = ret
    /\ UNCHANGED <<args, param, model, calls, mat1, hx, hE, windows>>

\* 1 * dt
Dt(m) == Mul(One, m.step_size)

\* x_next of a region
XNext(m, x, f, Eh) ==
    Add(x, Mul(Dt(m), Sub(Sub(Mul(One, Eh), Mul(Reciprocal(m.tau_s), x)),
                          Mul(Reciprocal(m.tau_f), Sub(f, One)))))

\* f_next of a region
FNext(m, x, f) == Add(f, Mul(Dt(m), x))

\* v_next of a region
VNext(m, f, v) ==
    Add(v, Mul(Mul(Dt(m), Sub(f, Pow(v, Reciprocal(m.alpha)))), Reciprocal(m.tau_0)))

\* q_next of a region
QNext(m, f, v, q) ==
    Add(q, Mul(Mul(Dt(m),
                   Sub(Mul(Mul(f, Sub(One, Pow(Sub(One, m.rho), Reciprocal(f)))),
                           Reciprocal(m.rho)),
                       Mul(Mul(q, Pow(v, Reciprocal(m.alpha))), Reciprocal(v)))),
               Reciprocal(m.tau_0)))

\* x after the step: tanh(x_next) under the smooth policy, x_next under the hard clamp
XAfter(m, xn) == IF m.use_dynamic_boundary THEN Tanh(xn) ELSE xn

\* f, v or q after the step: 1 + tanh(. - 1) under the smooth policy, the
\* floor of 0.001 under the hard clamp
HemoAfter(m, n) ==
    IF m.use_dynamic_boundary THEN Add(One, Tanh(Sub(n, One))) ELSE ClampBelow(n, HemoFloor)

\* the hemodynamic state of every region after the fine step at (TR_i, step_i)
HemoUpdate(m, l) ==
    [x |-> [r \in 1 .. m.node_size |->
               XAfter(m, XNext(m, l.x[r], l.f[r], l.E_hist[r][l.TR_i + 1][l.step_i + 1]))],
     f |-> [r \in 1 .. m.node_size |-> HemoAfter(m, FNext(m, l.x[r], l.f[r]))],
     v |-> [r \in 1 .. m.node_size |-> HemoAfter(m, VNext(m, l.f[r], l.v[r]))],
     q |-> [r \in 1 .. m.node_size |-> HemoAfter(m, QNext(m, l.f[r], l.v[r], l.q[r]))]]

\* whether the inner loop is exhausted by the iteration at step_i
PeriodEnds(m, l) == l.step_i + 1 >= m.steps_per_TR

\* one iteration of the hemodynamic inner loop (lines 302 - 316, 378 - 395)
HemoStep ==
    /\ pc = "hemo"
    /\ LET h == HemoUpdate(model, fwd)
       IN fwd' = [fwd EXCEPT !.x = h.x, !.f = h.f, !.v = h.v, !.q = h.q,
                             !.traj = Append(@, h),
                             !.step_i = @ + 1]
    /\ pc' = IF PeriodEnds(model, fwd) THEN "emit" ELSE "hemo"
    /\ UNCHANGED <<args, param, model, rng, calls, mat1, hx, hE, ret, windows>>

\* the BOLD sample of a region from its q and v and a standard-normal draw
Bold(m, q, v, draw) ==
    Add(Mul(Add(0, Relu(m.std_out)), draw),
        Mul(Mul(Mul(100 * One, m.V), Reciprocal(m.E0)),
            Add(Add(Mul(m.k1, Sub(One, q)),
                    Mul(m.k2, Sub(One, Mul(q, Reciprocal(v))))),
                Mul(m.k3, Sub(One, v)))))

\* an emit that wrote each period to the column of the period before it
WindowColumnBefore(l) == IF l.TR_i > 0 THEN l.TR_i ELSE 1

\* the column of the windows that period TR_i writes
WindowColumn(l) == l.TR_i + 1

\* w[:, c] = vals
SetColumn(w, c, vals) == [r \in DOMAIN w |-> [w[r] EXCEPT ![c] = vals[r]]]

\* the end of a period: the windows and the BOLD sample, with one
\* randn(node_size, 1) of observation noise (lines 318 - 328, 397 - 406)
HemoEmit ==
    /\ pc = "emit"
    /\ LET c == WindowColumn(fwd)
           draws == Randn(rng, model.node_size)
           more == fwd.TR_i + 1 < model.TRs_per_window
       IN /\ fwd' = [fwd EXCEPT
                       !.x_window = SetColumn(@, c, fwd.x),
                       !.f_window = SetColumn(@, c, fwd.f),
                       !.v_window = SetColumn(@, c, fwd.v),
                       !.q_window = SetColumn(@, c, fwd.q),
                       !.bold_window =
                           SetColumn(@, c, [r \in 1 .. model.node_size |->
                                               Bold(model, fwd.q[r], fwd.v[r], draws[r])]),
                       !.bold_noise = Append(@, draws),
                       !.TR_i = IF more THEN @ + 1 ELSE @,
                       !.step_i = 0]
          /\ pc' = IF ~more THEN "return"
                   ELSE IF model.steps_per_TR > 0 THEN "hemo" ELSE "emit"
    /\ rng' = RngAfter(rng, model.node_size)
    /\ UNCHANGED <<args, param, model, calls, mat1, hx, hE, ret, windows>>

RECURSIVE Concat(_)
\* the rows of a 2-d tensor one after another
Concat(rows) == IF Len(rows) = 0 THEN << >> ELSE rows[1] \o Concat(Tail(rows))

\* hist.reshape((node_size, -1))
Flatten(hist) == [r \in DOMAIN hist |-> Concat(hist[r])]

\* torch.cat([E_mean, I_mean, x, f, v, q], dim=1)
CurrentState(l) ==
    [r \in DOMAIN l.x |-> <<l.E_mean[r], l.I_mean[r], l.x[r], l.f[r], l.v[r], l.q[r]>>]

\* next_state, the output bundle
NextState(l) ==
    [current_state |-> CurrentState(l),
     bold_window |-> l.bold_window,
     E_window |-> Flatten(l.E_hist),
     I_window |-> Flatten(l.I_hist),
     x_window |-> l.x_window,
     f_window |-> l.f_window,
     v_window |-> l.v_window,
     q_window |-> l.q_window]

\* return next_state, hE (lines 408 - 420)
ForwardReturn ==
    /\ pc = "return"
    /\ ret' = [status |-> "ok", next_state |-> NextState(fwd), hE |-> hE]
    /\ pc' = "returned"
    /\ windows' = windows + 1
    /\ UNCHANGED <<args, param, model, rng, calls, mat1, hx, hE, fwd>>

\* the caller threads the returned State into its next call
NextWindow ==
    /\ pc = "returned"
    /\ hx' = ret.next_state.current_state
    /\ pc' = "idle"
    /\ UNCHANGED <<args, param, model, rng, calls, mat1, hE, fwd, ret, windows>>

\* gains an optimizer may have moved the fitted matrix to: not symmetric
FittedGains(n) == [i \in 1 .. n |-> [j \in 1 .. n |-> (i - 2 * j) * 100]]

\* the external optimizer updates the registered gain matrix in place
FitStep ==
    /\ pc = "idle"
    /\ calls > 0
    /\ windows = 0
    /\ ModelTensor("gains_con") \in SeqSet(model.params_fitted.modelparameter)
    /\ model.gains_con # FittedGains(model.node_size)
    /\ model' = [model EXCEPT !.gains_con = FittedGains(model.node_size)]
    /\ UNCHANGED <<pc, args, param, rng, calls, mat1, hx, hE, fwd, ret, windows>>

\* ------------------------------------------------------------ the inputs

\* the constructor's arguments
ArgsOf(n, sc, trs, tr, step, samp, fg, lap, bif, gei, dyn) ==
    [node_size |-> n, sc |-> sc, TRs_per_window |-> trs, tr |-> tr, step_size |-> step,
     sampling_size |-> samp, use_fit_gains |-> fg, use_Laplacian |-> lap,
     use_Bifurcation |-> bif, use_Gaussian_EI |-> gei, use_dynamic_boundary |-> dyn]

\* structural matrices, symmetric and non-negative: no connection at all,
\* every pair connected with weight 1, and graded weights with a diagonal
RingSC(n) == [i \in 1 .. n |-> [j \in 1 .. n |-> IF i = j THEN 0 ELSE One]]
WeightedSC(n) == [i \in 1 .. n |-> [j \in 1 .. n |-> (i + j) * 250]]
SCs(n) == {Full(n, n, 0), RingSC(n), WeightedSC(n)}

\* the parameter objects: the defaults with any fit flags on FitNames
ParamSets ==
    { [name \in DOMAIN DefaultParams |->
          IF name \in FitNames
          THEN [DefaultParams[name] EXCEPT !.fit_par = fp[name], !.fit_hyper = fh[name]]
          ELSE DefaultParams[name]] :
      fp \in [FitNames -> BOOLEAN], fh \in [FitNames -> BOOLEAN] }

\* createIC: 0.2 * uniform(0, 1) + [0, 0, 0, 1, 1, 1] for every region
CreateIC(n, k) ==
    [i \in 1 .. n |->
        [c \in 1 .. 6 |-> (((3 * i + c + k) * 37) % 200) + (IF c > 3 THEN One ELSE 0)]]

\* the step and the imaging period that give `steps` steps per period
StepSize == 50
TrOf(steps) == steps * StepSize

InitWith(a, p, s, h) ==
    /\ pc = "new"
    /\ args = a
    /\ param = p
    /\ model = None
    /\ rng = s
    /\ calls = 0
    /\ mat1 = None
    /\ hx = h
    /\ hE = <<One>>
    /\ fwd = None
    /\ ret = None
    /\ windows = 0

\* ------------------------------------------- the materializer on its own

Init ==
    \E n \in 1 .. MaxNodes, fg \in BOOLEAN, bif \in BOOLEAN, gei \in BOOLEAN,
       p \in ParamSets, s \in 0 .. MaxSeed :
        InitWith(ArgsOf(n, RingSC(n), 1, TrOf(1), StepSize, 1, fg, TRUE, bif, gei, TRUE),
                 p, s, CreateIC(n, 0))

Next == Construct \/ SetModelParameters

Spec == Init /\ [][Next]_vars



\* ------------------------------------------------- forward calls, valid

\* the States a caller may start from: a draw of createIC, and one with
\* a large negative x seed
NegativeXSeed(n) == [i \in 1 .. n |-> <<100, 100, 0 - 40 * One, One, One, One>>]
StartStates(n) == {CreateIC(n, 0), NegativeXSeed(n)}

InitForward ==
    \E n \in 1 .. MaxNodes, trs \in 1 .. MaxTRs, steps \in 1 .. MaxSteps,
       samp \in {1, MaxSampling}, fg \in BOOLEAN, lap \in BOOLEAN, dyn \in BOOLEAN,
       s \in 0 .. MaxSeed :
        \E sc \in SCs(n), h \in StartStates(n) :
            InitWith(ArgsOf(n, sc, trs, TrOf(steps), StepSize, samp, fg, lap, TRUE, FALSE, dyn),
                     DefaultParams, s, h)

NextForward ==
    \/ Construct
    \/ SetModelParameters
    \/ FitStep
    \/ ForwardBegin
    \/ NeuralStep
    \/ HemoStep
    \/ HemoEmit
    \/ ForwardReturn
    \/ NextWindow

SpecForward == InitForward /\ [][NextForward]_vars


\* ------------------------------------------- forward calls, any config

\* connectivity matrices of the wrong shape for n regions, and one of the right shape
ConfigSCs(n) ==
    IF n = 1
    THEN {Full(1, 2, One), RingSC(2), RingSC(1)}
    ELSE {Full(2, 1, One), Full(2, 3, One), RingSC(1), RingSC(2)}

\* imaging periods that give -1, 0 and 1 steps per period at StepSize
ConfigTrs == {0 - StepSize, StepSize \div 2, StepSize}

InitConfig ==
    \E n \in 1 .. MaxNodes, trs \in {0 - 1, 0, 1}, tr \in ConfigTrs, step \in {0, StepSize},
       dyn \in BOOLEAN :
        \E sc \in ConfigSCs(n) :
            InitWith(ArgsOf(n, sc, trs, tr, step, 1, FALSE, FALSE, TRUE, FALSE, dyn),
                     DefaultParams, 0, CreateIC(n, 0))

NextConfig ==
    \/ Construct
    \/ SetModelParameters
    \/ ForwardBegin
    \/ NeuralStep
    \/ HemoStep
    \/ HemoEmit
    \/ ForwardReturn

SpecConfig == InitConfig /\ [][NextConfig]_vars

\* ------------------------------------------ claims on setModelParameters

Count(s, t) == Cardinality({i \in DOMAIN s : s[i] = t})
Materialized == pc = "idle" /\ calls > 0
Reg == model.params_fitted.modelparameter
Hyp == model.params_fitted.hyperparameter
ParTensors(name) ==
    {ParTensor(name, "val"), ParTensor(name, "prior_mean"), ParTensor(name, "prior_var")}
Trainable(name) == param[name].is_par /\ (param[name].fit_par \/ param[name].fit_hyper)

\* C1: after setModelParameters, whatever the fit flags of the entries and
\* the mode flags, the point-trainable and the hyperprior-trainable
\* collections share no tensor, and every trainable entry has its value or
\* its prior mean / prior variance in at least one of them.
C1_DisjointAndCovering ==
    Materialized =>
        /\ SeqSet(Reg) \cap SeqSet(Hyp) = {}
        /\ \A name \in DOMAIN param :
              Trainable(name) => ParTensors(name) \cap (SeqSet(Reg) \cup SeqSet(Hyp)) # {}

\* C1's case: all the sources of both collections are active at once
C1_Witness ==
    /\ Materialized
    /\ model.use_Gaussian_EI /\ model.use_Bifurcation /\ model.use_fit_gains
    /\ \E name \in FitNames : param[name].fit_par /\ param[name].fit_hyper
    /\ \E name \in FitNames : param[name].fit_par /\ ~param[name].fit_hyper

\* C2: with the hyperprior-on-states mode on, setModelParameters creates
\* four extra trainable scalars, and every scalar it creates for the mode is
\* in the hyperprior-trainable collection exactly once.
C2_GaussianEIEachOnce ==
    (Materialized /\ model.use_Gaussian_EI) =>
        /\ Cardinality(DOMAIN GaussianEIAttrs \cap DOMAIN model) = 4
        /\ \A a \in DOMAIN GaussianEIAttrs \cap DOMAIN model : Count(Hyp, ModelTensor(a)) = 1

\* C2, its second half alone: each created scalar is registered exactly once
C2_RegisteredEachOnce ==
    (Materialized /\ model.use_Gaussian_EI) =>
        \A a \in DOMAIN GaussianEIAttrs \cap DOMAIN model : Count(Hyp, ModelTensor(a)) = 1

GainsAre(fill) ==
    /\ Rows(model.gains_con) = model.node_size
    /\ \A i \in 1 .. model.node_size :
          /\ Len(model.gains_con[i]) = model.node_size
          /\ \A j \in 1 .. model.node_size : model.gains_con[i][j] = fill
GainsRegisteredAsClaimed ==
    IF model.use_fit_gains
    THEN ModelTensor("gains_con") \in SeqSet(Reg) /\ ModelTensor("gains_con") \notin SeqSet(Hyp)
    ELSE ModelTensor("gains_con") \notin SeqSet(Reg) \cup SeqSet(Hyp)

\* C3 as stated: gains_con is an all-zero node_size x node_size matrix in
\* both modes, registered as point-trainable exactly when gains are fit.
C3_GainsAllZero == Materialized => (GainsAre(0) /\ GainsRegisteredAsClaimed)

\* C3 amended: gains_con is node_size x node_size in both modes; with gain
\* fitting on every entry is 0.05 and the matrix is point-trainable only,
\* with gain fitting off every entry is 0 and it is in neither collection.
C3_GainsInitialValue ==
    Materialized =>
        /\ GainsAre(IF model.use_fit_gains THEN 50 ELSE 0)
        /\ GainsRegisteredAsClaimed

\* C3's case: a fitted gain matrix of more than one region
C3_Witness == Materialized /\ model.use_fit_gains /\ model.node_size > 1

\* a ParameterSet with nothing to redraw
NonRandom == \A name \in DOMAIN param : ~param[name].fit_hyper

\* C4: for a ParameterSet with nothing random in it, a second
\* setModelParameters in a row leaves every attribute of the model, the two
\* collections of params_fitted included, as the first call left them.
C4_Idempotent == (Materialized /\ calls >= 2 /\ NonRandom) => model = mat1

\* C4's case: a second call with both collections non-empty
C4_Witness ==
    /\ Materialized /\ calls = 2 /\ NonRandom
    /\ Len(Reg) >= 2 /\ Len(Hyp) >= 3

\* ------------------------------------------------ claims on forward

\* a forward call has been entered and has not failed
InCall == pc \in {"neural", "hemo", "emit", "return", "returned"}

\* the call has produced its output bundle
Returned == pc = "returned"

\* the named attributes other than sc_fitted are as the call found them
OtherAttrsKept ==
    /\ DOMAIN model = DOMAIN fwd.model_before
    /\ \A attr \in DOMAIN model \ {"sc_fitted"} : model[attr] = fwd.model_before[attr]

\* hx and hE are as the call found them and hE is what the call returns
InputsKept ==
    /\ hx = fwd.hx_before
    /\ hE = fwd.hE_before
    /\ ret.hE = fwd.hE_before

\* C5 as stated: a forward call writes no attribute of the model (the
\* coupling matrix built during the call is not stored on it), and leaves
\* hx and hE unchanged, returning hE as it is.
C5_NoAttributeWritten == Returned => (model = fwd.model_before /\ InputsKept)

\* C5 amended: a forward call writes sc_fitted and no other attribute: for
\* two regions or more sc_fitted becomes the symmetrized, normalized
\* connectivity of this call, for one region nothing is written; hx and hE
\* are unchanged and hE is returned as it is.
C5_OnlyScFittedWritten ==
    Returned =>
        /\ OtherAttrsKept
        /\ model.sc_fitted = IF Rows(model.sc) > 1
                             THEN ScModNormalized(fwd.model_before)
                             ELSE fwd.model_before.sc_fitted
        /\ InputsKept

\* C5's case: a completed call on two regions that changed sc_fitted
C5_Witness ==
    /\ Returned
    /\ model.node_size > 1
    /\ model.sc_fitted # fwd.model_before.sc_fitted

\* the configurations C6 calls errors
BadConfig(a) ==
    \/ Rows(a.sc) # Cols(a.sc)
    \/ Rows(a.sc) # a.node_size
    \/ a.TRs_per_window <= 0
    \/ a.step_size = 0
    \/ IntOf(Divide(a.tr, a.step_size)) <= 0

\* C6 as stated: with a non-square or wrongly sized connectivity matrix or
\* a non-positive step count, no integration step runs and no forward
\* call returns an output bundle.
C6_FailFast ==
    BadConfig(args) =>
        /\ ~Returned
        /\ fwd = None \/ (fwd.neural_steps = 0 /\ Len(fwd.traj) = 0 /\ Len(fwd.bold_noise) = 0)

\* equality of floats: NaN equals nothing
FloatEq(a, b) == ~IsNaN(a) /\ ~IsNaN(b) /\ a = b

\* a <= b on floats: false with a NaN
FloatLeq(a, b) == ~IsNaN(a) /\ ~IsNaN(b) /\ a <= b

\* a < b on floats: false with a NaN
FloatLess(a, b) == ~IsNaN(a) /\ ~IsNaN(b) /\ a < b

\* the coupling operator is symmetric
Symmetric(A) ==
    /\ Rows(A) = Cols(A)
    /\ \A i \in 1 .. Rows(A), j \in 1 .. Rows(A) : FloatEq(A[i][j], A[j][i])

\* every row of the coupling operator sums to zero
ZeroRowSums(A) == \A i \in 1 .. Rows(A) : FloatEq(SumSeq(A[i]), 0)

\* C7 as stated: for a symmetric non-negative S on two regions or more and
\* any gains the coupling operator of a forward call is symmetric, with
\* rows summing to zero in Laplacian mode; for one region it is the 1x1
\* zero matrix.
C7_CouplingSymmetric ==
    InCall =>
        IF model.node_size = 1
        THEN fwd.lap_adj = Full(1, 1, 0)
        ELSE /\ Symmetric(fwd.lap_adj)
             /\ model.use_Laplacian => ZeroRowSums(fwd.lap_adj)

\* the structural matrix has a connection
Connected == \E i \in 1 .. Rows(model.sc), j \in 1 .. Cols(model.sc) : model.sc[i][j] # 0

\* C7 where it holds: with at least one connection in S
C7_HoldsWhenConnected == (InCall /\ Connected) => C7_CouplingSymmetric

\* f, v and q of every region are at least the floor
Floored(h) ==
    \A r \in DOMAIN h.f :
        /\ FloatLeq(HemoFloor, h.f[r])
        /\ FloatLeq(HemoFloor, h.v[r])
        /\ FloatLeq(HemoFloor, h.q[r])

\* the columns of the windows written so far
WrittenColumns ==
    IF pc \in {"return", "returned"} THEN 1 .. model.TRs_per_window ELSE 1 .. fwd.TR_i

\* C8 as stated: under the hard clamp f, v and q of every region are at
\* least 0.001 after every hemodynamic fine step, in the windows and in
\* the returned State.
C8_HardClampFloor ==
    (InCall /\ ~model.use_dynamic_boundary /\ Len(fwd.traj) > 0) =>
        /\ \A k \in 1 .. Len(fwd.traj) : Floored(fwd.traj[k])
        /\ \A p \in WrittenColumns :
               Floored([f |-> [r \in 1 .. model.node_size |-> fwd.f_window[r][p]],
                        v |-> [r \in 1 .. model.node_size |-> fwd.v_window[r][p]],
                        q |-> [r \in 1 .. model.node_size |-> fwd.q_window[r][p]]])
        /\ Returned =>
               Floored([f |-> Column(ret.next_state.current_state, 4),
                        v |-> Column(ret.next_state.current_state, 5),
                        q |-> Column(ret.next_state.current_state, 6)])

\* no NaN has entered the coupling operator
CouplingFinite ==
    \A i \in 1 .. Rows(fwd.lap_adj), j \in 1 .. Cols(fwd.lap_adj) : IsFinite(fwd.lap_adj[i][j])

\* C8 where it holds: with a coupling operator free of NaN
C8_HoldsWhenCouplingFinite == (InCall /\ CouplingFinite) => C8_HardClampFloor

\* the periods whose end has been passed
PeriodsEmitted == Len(fwd.bold_noise)

\* the hemodynamic state after the last fine step of period p
LastStepOf(p) == fwd.traj[p * model.steps_per_TR]

\* C9: one BOLD sample per region and period, computed after the last of
\* the period's steps_per_TR fine steps from the q and v of that step, with
\* observation noise drawn once per period (TRs_per_window draws in a
\* call), and column p of x_window, f_window, v_window and q_window holding
\* the values after the last fine step of period p.
C9_OneSamplePerPeriod ==
    InCall =>
        /\ PeriodsEmitted =
               IF pc = "emit"
               THEN (Len(fwd.traj) \div model.steps_per_TR) - 1
               ELSE Len(fwd.traj) \div model.steps_per_TR
        /\ pc \in {"return", "returned"} => PeriodsEmitted = model.TRs_per_window
        /\ \A p \in 1 .. PeriodsEmitted, r \in 1 .. model.node_size :
               /\ fwd.x_window[r][p] = LastStepOf(p).x[r]
               /\ fwd.f_window[r][p] = LastStepOf(p).f[r]
               /\ fwd.v_window[r][p] = LastStepOf(p).v[r]
               /\ fwd.q_window[r][p] = LastStepOf(p).q[r]
               /\ fwd.bold_window[r][p] =
                      Bold(model, LastStepOf(p).q[r], LastStepOf(p).v[r], fwd.bold_noise[p][r])

\* C9's case: a completed call of two periods of two fine steps each
C9_Witness ==
    /\ Returned
    /\ model.TRs_per_window = 2 /\ model.steps_per_TR = 2
    /\ Len(fwd.traj) = 4 /\ PeriodsEmitted = 2
    /\ fwd.f_window[1][1] # fwd.f_window[1][2]
    /\ LastStepOf(1).f[1] # fwd.traj[1].f[1]

\* C10 as stated: under the smooth policy the returned State is
\* regions x 6 with E and I in [0, 1), f > 0, v > 0 and q in [0, 2), over
\* any sequence of calls threaded through the returned State.
C10_SmoothStateInRange ==
    (Returned /\ model.use_dynamic_boundary) =>
        LET st == ret.next_state.current_state
        IN /\ Len(st) = model.node_size
           /\ \A r \in 1 .. Len(st) :
                  /\ Len(st[r]) = 6
                  /\ FloatLeq(0, st[r][1]) /\ FloatLess(st[r][1], One)
                  /\ FloatLeq(0, st[r][2]) /\ FloatLess(st[r][2], One)
                  /\ FloatLess(0, st[r][4])
                  /\ FloatLess(0, st[r][5])
                  /\ FloatLeq(0, st[r][6]) /\ FloatLess(st[r][6], 2 * One)

\* C10 where it holds: with a coupling operator free of NaN
C10_HoldsWhenCouplingFinite == (Returned /\ CouplingFinite) => C10_SmoothStateInRange

\* the number of neural steps of a call
NeuralTotal == model.TRs_per_window * model.steps_per_TR

\* the means the k-th neural step draws its samples around
SeedE(k) == IF k = 1 THEN Column(fwd.hx_before, 1) ELSE fwd.ntraj[k - 1].E_mean
SeedI(k) == IF k = 1 THEN Column(fwd.hx_before, 2) ELSE fwd.ntraj[k - 1].I_mean

\* the hemodynamic state the k-th hemodynamic step starts from
HemoBefore(k) ==
    IF k = 1
    THEN [x |-> Column(fwd.hx_before, 3), f |-> Column(fwd.hx_before, 4)]
    ELSE [x |-> fwd.traj[k - 1].x, f |-> fwd.traj[k - 1].f]

\* the neural steps run in (period, step) order, each drawing around the
\* mean of the step before it, and all of them before any hemodynamic step
NeuralInOrder ==
    /\ Len(fwd.ntraj) <= NeuralTotal
    /\ pc \in {"hemo", "emit", "return", "returned"} => Len(fwd.ntraj) = NeuralTotal
    /\ Len(fwd.traj) > 0 => Len(fwd.ntraj) = NeuralTotal
    /\ \A k \in 1 .. Len(fwd.ntraj) :
           /\ fwd.ntraj[k].TR_i = (k - 1) \div model.steps_per_TR
           /\ fwd.ntraj[k].step_i = (k - 1) % model.steps_per_TR
           /\ fwd.ntraj[k].E = ESamples(model, SeedE(k), fwd.ntraj[k].rng)
           /\ fwd.ntraj[k].I = ISamples(model, SeedI(k), fwd.ntraj[k].rng)

\* hemodynamic step (period, step) is driven by the E history at [period, step]
HemoDrivenByHistory ==
    \A k \in 1 .. Len(fwd.traj), r \in 1 .. model.node_size :
        fwd.traj[k].x[r] =
            XAfter(model, XNext(model, HemoBefore(k).x[r], HemoBefore(k).f[r],
                                fwd.E_hist[r][((k - 1) \div model.steps_per_TR) + 1]
                                             [((k - 1) % model.steps_per_TR) + 1]))

\* the E and I columns of the returned State are the mean of the last neural step
ReturnsLastMean ==
    Returned =>
        /\ Column(ret.next_state.current_state, 1) = fwd.ntraj[NeuralTotal].E_mean
        /\ Column(ret.next_state.current_state, 2) = fwd.ntraj[NeuralTotal].I_mean

\* the history and, once returned, E_window and I_window hold E_rec and
\* I_rec of the k-th neural step at [period, step]
HistoryHolds(k, E_rec, I_rec) ==
    \A r \in 1 .. model.node_size :
        /\ fwd.E_hist[r][fwd.ntraj[k].TR_i + 1][fwd.ntraj[k].step_i + 1] = E_rec[r]
        /\ fwd.I_hist[r][fwd.ntraj[k].TR_i + 1][fwd.ntraj[k].step_i + 1] = I_rec[r]
        /\ Returned =>
               /\ ret.next_state.E_window[r][k] = E_rec[r]
               /\ ret.next_state.I_window[r][k] = I_rec[r]

\* C11 as stated: the neural steps run in (period, step) order,
\* TRs_per_window x steps_per_TR of them, each drawing its samples around
\* the mean of the step before it (the input State's E and I for the
\* first), the step's mean is recorded at [period, step] (flattened index
\* period * steps_per_TR + step of E_window and I_window), all neural steps
\* come before the first hemodynamic step, hemodynamic step (period, step)
\* is driven by the E history at [period, step], and the E and I columns of
\* the returned State are the mean of the last neural step.
C11_MeanRecorded ==
    InCall =>
        /\ NeuralInOrder
        /\ \A k \in 1 .. Len(fwd.ntraj) :
               HistoryHolds(k, fwd.ntraj[k].E_mean, fwd.ntraj[k].I_mean)
        /\ HemoDrivenByHistory
        /\ ReturnsLastMean

\* C11 where it holds as stated: under the smooth policy
C11_HoldsWhenSmooth == (InCall /\ model.use_dynamic_boundary) => C11_MeanRecorded

\* C11 amended: as stated, except that what is recorded at [period, step]
\* is the step's mean under the smooth policy and tanh of the step's mean
\* under the hard clamp.
C11_RecordedByPolicy ==
    InCall =>
        /\ NeuralInOrder
        /\ \A k \in 1 .. Len(fwd.ntraj) :
               HistoryHolds(k, Recorded(model, fwd.ntraj[k].E_mean),
                               Recorded(model, fwd.ntraj[k].I_mean))
        /\ HemoDrivenByHistory
        /\ ReturnsLastMean

\* C11's case: a completed call of two periods of two steps under the hard
\* clamp, whose history differs from the means of its steps
C11_Witness ==
    /\ Returned
    /\ ~model.use_dynamic_boundary
    /\ model.TRs_per_window = 2 /\ model.steps_per_TR = 2
    /\ Len(fwd.ntraj) = 4 /\ Len(fwd.traj) = 4
    /\ ret.next_state.E_window[1][4] # fwd.ntraj[4].E_mean[1]
    /\ fwd.ntraj[2].E_mean # fwd.ntraj[1].E_mean

====
